---- MODULE Spec2Model ----
(***************************************************************************)
(* Model of rocket-client-addr: the ClientAddr and ClientRealAddr request  *)
(* guards (src/src/client_addr.rs, src/src/client_real_addr.rs).           *)
(*                                                                         *)
(* Text is a sequence of one-character strings.  An IP address is a record *)
(* [v, parts]: v = 4 with four octets, or v = 6 with eight 16-bit segments.*)
(* Option<T> is a sequence of length 0 (None) or 1 (Some).                 *)
(***************************************************************************)
EXTENDS Integers, Sequences, FiniteSets, TLC

VARIABLES
    addr,            \* classifier input: the address handed to is_local_ip
    verdict,         \* classifier output: None before the call, then Some(BOOLEAN)
    tokens,          \* the tokens the first X-Forwarded-For value was joined from
    remote,          \* request.remote().map(ip): Option<IpAddr>
    xff,             \* the X-Forwarded-For header values of the request, in order
    realIp,          \* request.real_ip(): Option<IpAddr>
    lastIp,          \* local last_ip of client_addr::from_request where the loop
                     \* was left: None if the loop was not reached, else Some(last_ip)
    clientAddr,      \* outcome of the ClientAddr guard (Pending before it ran)
    clientRealAddr,  \* outcome of the ClientRealAddr guard (Pending before it ran)
    requests,        \* per request: its immutable inputs [remote, xff, realIp]
    cache,           \* per request and cached type: Unset, or <<Option<..>>>
    served,          \* per request and guard type: the outcomes handed out so far
    resolutions,     \* per request and guard type: how often from_request has run
    calls            \* number of guard invocations so far

vars == <<addr, verdict, tokens, remote, xff, realIp, lastIp, clientAddr,
          clientRealAddr, requests, cache, served, resolutions, calls>>

classifyVars == <<addr, verdict>>
resolveVars == <<tokens, remote, xff, realIp, lastIp, clientAddr, clientRealAddr>>
guardVars == <<requests, cache, served, resolutions, calls>>

(***************************************************************************)
(* Bounds of the model.                                                    *)
(***************************************************************************)
\* Sampled octets / segments lie within Spread of a range boundary.
Spread == 1
\* Largest number of comma-separated tokens in a generated header value.
MaxTokens == 3
\* Largest number of guard invocations on the requests of the cache model.
MaxCalls == 4

(***************************************************************************)
(* Option and address values.                                              *)
(***************************************************************************)
None == <<>>
Some(x) == <<x>>
IsSome(o) == Len(o) = 1
Unwrap(o) == o[1]

V4(a, b, c, d) == [v |-> 4, parts |-> <<a, b, c, d>>]
V6(s) == [v |-> 6, parts |-> s]

(***************************************************************************)
(* Bit masking on 16-bit segments.                                         *)
(***************************************************************************)
RECURSIVE BitAnd(_, _)
BitAnd(a, b) ==
    IF a = 0 \/ b = 0 THEN 0
    ELSE (a % 2) * (b % 2) + 2 * BitAnd(a \div 2, b \div 2)

(***************************************************************************)
(* is_local_ip, client_addr.rs:16-74.  The match arms are tried in order;  *)
(* every arm yields true, so the V4 branch is their disjunction.           *)
(***************************************************************************)
is_local_v4_wide172(octets) ==
    \/ octets[1] = 10
    \/ octets[1] = 172 /\ octets[2] >= 16 /\ octets[2] <= 32
    \/ octets[1] = 192 /\ octets[2] = 168
    \/ octets[1] = 127
    \/ octets[1] = 169 /\ octets[2] = 254
    \/ octets = <<255, 255, 255, 255>>
    \/ octets[1] = 192 /\ octets[2] = 0 /\ octets[3] = 2
    \/ octets[1] = 198 /\ octets[2] = 51 /\ octets[3] = 100
    \/ octets[1] = 203 /\ octets[2] = 0 /\ octets[3] = 113
    \/ octets = <<0, 0, 0, 0>>

is_local_v4(octets) ==
    \/ octets[1] = 10
    \/ octets[1] = 172 /\ octets[2] >= 16 /\ octets[2] <= 31
    \/ octets[1] = 192 /\ octets[2] = 168
    \/ octets[1] = 127
    \/ octets[1] = 169 /\ octets[2] = 254
    \/ octets = <<255, 255, 255, 255>>
    \/ octets[1] = 192 /\ octets[2] = 0 /\ octets[3] = 2
    \/ octets[1] = 198 /\ octets[2] = 51 /\ octets[3] = 100
    \/ octets[1] = 203 /\ octets[2] = 0 /\ octets[3] = 113
    \/ octets = <<0, 0, 0, 0>>

is_local_v6_scope_mask(segments) ==
    LET is_multicast == BitAnd(segments[1], 65280) = 65280
    IN  IF is_multicast
        THEN BitAnd(segments[1], 14) # 14
        ELSE \/ segments = <<0, 0, 0, 0, 0, 0, 0, 1>>
             \/ segments = <<0, 0, 0, 0, 0, 0, 0, 0>>
             \/ BitAnd(segments[1], 65472) = 65152
             \/ BitAnd(segments[1], 65472) = 65216
             \/ BitAnd(segments[1], 65024) = 64512
             \/ segments[1] = 8193 /\ segments[2] = 3512

is_local_v6(segments) ==
    LET is_multicast == BitAnd(segments[1], 65280) = 65280
    IN  IF is_multicast
        THEN BitAnd(segments[1], 15) # 14
        ELSE \/ segments = <<0, 0, 0, 0, 0, 0, 0, 1>>
             \/ segments = <<0, 0, 0, 0, 0, 0, 0, 0>>
             \/ BitAnd(segments[1], 65472) = 65152
             \/ BitAnd(segments[1], 65472) = 65216
             \/ BitAnd(segments[1], 65024) = 64512
             \/ segments[1] = 8193 /\ segments[2] = 3512

is_local_ip(a) ==
    IF a.v = 4 THEN is_local_v4(a.parts) ELSE is_local_v6(a.parts)

(***************************************************************************)
(* Sampled addresses: every octet / segment within Spread of a boundary of *)
(* one of the ranges the classifier tests.                                 *)
(***************************************************************************)
Near(points, hi) ==
    {x \in 0..hi : \E p \in points : x >= p - Spread /\ x <= p + Spread}

Octet1 == Near({0, 10, 127, 169, 172, 192, 198, 203, 255}, 255)
Octet2 == Near({0, 16, 31, 51, 168, 254, 255}, 255)
Octet3 == Near({0, 2, 100, 113, 255}, 255)
Octet4 == Near({0, 255}, 255)

V4Samples == {V4(a, b, c, d) : a \in Octet1, b \in Octet2, c \in Octet3, d \in Octet4}

Segment0 == Near({0, 8193, 64512, 65024, 65152, 65216, 65280, 65294, 65310, 65535}, 65535)
Segment1 == Near({0, 3512, 65535}, 65535)
MiddleSegments == {<<0, 0, 0, 0, 0>>, <<1, 0, 0, 0, 0>>, <<0, 0, 1, 0, 0>>, <<0, 0, 0, 0, 1>>}
Segment7 == Near({0, 1}, 65535)

V6Samples ==
    {V6(<<a, b>> \o m \o <<z>>) : a \in Segment0, b \in Segment1,
                                   m \in MiddleSegments, z \in Segment7}

(***************************************************************************)
(* Classifier specification: one address, one call of is_local_ip.         *)
(***************************************************************************)
Pending == [kind |-> "Pending", status |-> "", ip |-> None]

ResolveIdle ==
    /\ tokens = <<>>
    /\ remote = None
    /\ xff = <<>>
    /\ realIp = None
    /\ lastIp = None
    /\ clientAddr = Pending
    /\ clientRealAddr = Pending

GuardsIdle ==
    /\ requests = <<>>
    /\ cache = <<>>
    /\ served = <<>>
    /\ resolutions = <<>>
    /\ calls = 0

ClassifyInit ==
    /\ addr \in V4Samples \cup V6Samples
    /\ verdict = None
    /\ ResolveIdle
    /\ GuardsIdle

Classify ==
    /\ verdict = None
    /\ verdict' = Some(is_local_ip(addr))
    /\ UNCHANGED <<addr, resolveVars, guardVars>>

ClassifyNext == Classify

SpecClassify == ClassifyInit /\ [][ClassifyNext]_vars

(***************************************************************************)
(* Reference classification, stated on the numeric value of the network    *)
(* prefix (CIDR) rather than on octet patterns.                            *)
(***************************************************************************)
\* The /24 network number of an IPv4 address (its upper 24 bits).
V4Net24(o) == (o[1] * 256 + o[2]) * 256 + o[3]

InLocalV4Ranges(o) ==
    LET n == V4Net24(o)
    IN  \/ n \div 65536 = 10                 \* 10.0.0.0/8
        \/ n \div 4096 = 2753                \* 172.16.0.0/12
        \/ n \div 256 = 49320                \* 192.168.0.0/16
        \/ n \div 65536 = 127                \* 127.0.0.0/8
        \/ n \div 256 = 43518                \* 169.254.0.0/16
        \/ n = 12582914                      \* 192.0.2.0/24
        \/ n = 12989284                      \* 198.51.100.0/24
        \/ n = 13303921                      \* 203.0.113.0/24
        \/ n = 0 /\ o[4] = 0                 \* 0.0.0.0
        \/ n = 16777215 /\ o[4] = 255        \* 255.255.255.255

InLocalV6Ranges(s) ==
    IF s[1] \div 256 = 255
    THEN s[1] % 16 # 14
    ELSE \/ s = <<0, 0, 0, 0, 0, 0, 0, 1>>
         \/ s = <<0, 0, 0, 0, 0, 0, 0, 0>>
         \/ s[1] \in 65152..65279          \* 0xFE80..0xFEFF
         \/ s[1] \div 512 = 126            \* top 7 bits 1111110
         \/ s[1] = 8193 /\ s[2] = 3512     \* 2001:db8::/32

\* C7: for every IPv4 address is_local_ip returns true exactly when the
\* address lies in 10.0.0.0/8, 172.16.0.0/12, 192.168.0.0/16, 127.0.0.0/8,
\* 169.254.0.0/16, 192.0.2.0/24, 198.51.100.0/24 or 203.0.113.0/24, or is
\* 0.0.0.0 or 255.255.255.255, and false for every other IPv4 address.
C7_IPv4Classification ==
    (verdict # None /\ addr.v = 4) => (Unwrap(verdict) = InLocalV4Ranges(addr.parts))

\* 172.32.0.0, just above 172.16.0.0/12, has been classified as not local.
C7_Witness == addr = V4(172, 32, 0, 0) /\ verdict = Some(FALSE)

\* C8: for every IPv6 address is_local_ip returns, for a multicast address,
\* true exactly when the low 4 bits of segment 0 differ from 14; for any
\* other address, true exactly when it is ::1 or ::, or segment 0 is in
\* 0xFE80..0xFEFF or in fc00::/7, or the address is in 2001:db8::/32.
C8_IPv6Classification ==
    (verdict # None /\ addr.v = 6) => (Unwrap(verdict) = InLocalV6Ranges(addr.parts))

\* ff0e::1, a global-scope multicast address, has been classified as not local.
C8_Witness == addr = V6(<<65294, 0, 0, 0, 0, 0, 0, 1>>) /\ verdict = Some(FALSE)

(***************************************************************************)
(* Text helpers: str::trim, str::rsplit(','), str::split(',').next().      *)
(***************************************************************************)
IsWhitespace(c) == c \in {" ", "\t"}

RECURSIVE trim_start(_)
trim_start(s) ==
    IF s # <<>> /\ IsWhitespace(Head(s)) THEN trim_start(Tail(s)) ELSE s

RECURSIVE trim_end(_)
trim_end(s) ==
    IF s # <<>> /\ IsWhitespace(s[Len(s)])
    THEN trim_end(SubSeq(s, 1, Len(s) - 1))
    ELSE s

trim(s) == trim_end(trim_start(s))

CommaPositions(s) == {i \in 1..Len(s) : s[i] = ","}

SetMax(S) == CHOOSE x \in S : \A y \in S : y <= x
SetMin(S) == CHOOSE x \in S : \A y \in S : x <= y

\* The pieces of s between commas, from the LAST piece to the first.
RECURSIVE rsplit(_)
rsplit(s) ==
    LET commas == CommaPositions(s)
    IN  IF commas = {} THEN <<s>>
        ELSE LET k == SetMax(commas)
             IN  <<SubSeq(s, k + 1, Len(s))>> \o rsplit(SubSeq(s, 1, k - 1))

\* split(',').next(): the piece before the first comma; always Some.
split_first(s) ==
    LET commas == CommaPositions(s)
    IN  IF commas = {} THEN Some(s)
        ELSE Some(SubSeq(s, 1, SetMin(commas) - 1))

(***************************************************************************)
(* str::parse::<IpAddr>() (core::net::parser), as the guards use it.       *)
(* A reader returns None, or Some([val, next]) with next the position of   *)
(* the first character it did not consume.                                 *)
(***************************************************************************)
\* char::to_digit: the value of a digit character, upper or lower case.
DigitValue ==
    [c \in {"0", "1", "2", "3", "4", "5", "6", "7", "8", "9"} |->
        CASE c = "0" -> 0 [] c = "1" -> 1 [] c = "2" -> 2 [] c = "3" -> 3
          [] c = "4" -> 4 [] c = "5" -> 5 [] c = "6" -> 6 [] c = "7" -> 7
          [] c = "8" -> 8 [] c = "9" -> 9]
    @@ [c \in {"a", "b", "c", "d", "e", "f"} |->
        CASE c = "a" -> 10 [] c = "b" -> 11 [] c = "c" -> 12
          [] c = "d" -> 13 [] c = "e" -> 14 [] c = "f" -> 15]
    @@ [c \in {"A", "B", "C", "D", "E", "F"} |->
        CASE c = "A" -> 10 [] c = "B" -> 11 [] c = "C" -> 12
          [] c = "D" -> 13 [] c = "E" -> 14 [] c = "F" -> 15]

to_digit(c, radix) ==
    IF c \in DOMAIN DigitValue /\ DigitValue[c] < radix
    THEN Some(DigitValue[c]) ELSE None

\* The digits read greedily from position pos.
RECURSIVE read_digits(_, _, _)
read_digits(s, pos, radix) ==
    IF pos > Len(s) THEN <<>>
    ELSE LET d == to_digit(s[pos], radix)
         IN  IF d = None THEN <<>>
             ELSE d \o read_digits(s, pos + 1, radix)

RECURSIVE DigitsValue(_, _)
DigitsValue(ds, radix) ==
    IF ds = <<>> THEN 0
    ELSE DigitsValue(SubSeq(ds, 1, Len(ds) - 1), radix) * radix + ds[Len(ds)]

\* read_number(radix, Some(max_digits), allow_zero_prefix) into an unsigned
\* type whose largest value is max_value (checked_mul / checked_add), given
\* the digits ds read at pos.
number_of(s, pos, radix, max_digits, allow_zero_prefix, max_value, ds) ==
    IF Len(ds) = 0 \/ Len(ds) > max_digits THEN None
    ELSE IF DigitsValue(ds, radix) > max_value THEN None
    ELSE IF ~allow_zero_prefix /\ s[pos] = "0" /\ Len(ds) > 1 THEN None
    ELSE Some([val |-> DigitsValue(ds, radix), next |-> pos + Len(ds)])

read_number(s, pos, radix, max_digits, allow_zero_prefix, max_value) ==
    number_of(s, pos, radix, max_digits, allow_zero_prefix, max_value,
              read_digits(s, pos, radix))

\* read_separator(sep, index, ..): the separator is read before every group
\* but the first; the position after it, or None.
read_separator(s, pos, sep, index) ==
    IF index = 0 THEN Some(pos)
    ELSE IF pos <= Len(s) /\ s[pos] = sep THEN Some(pos + 1)
    ELSE None

\* read_ipv4_addr: four decimal groups of at most 3 digits, no leading zero,
\* separated by dots.  p is the position after the separator, n the number.
RECURSIVE read_ipv4_groups(_, _, _, _)
ipv4_group_number(s, index, acc, n) ==
    IF n = None THEN None
    ELSE read_ipv4_groups(s, Unwrap(n).next, index + 1, Append(acc, Unwrap(n).val))

ipv4_group(s, index, acc, p) ==
    IF p = None THEN None
    ELSE ipv4_group_number(s, index, acc, read_number(s, Unwrap(p), 10, 3, FALSE, 255))

read_ipv4_groups(s, pos, index, acc) ==
    IF index = 4 THEN Some([val |-> acc, next |-> pos])
    ELSE ipv4_group(s, index, acc, read_separator(s, pos, ".", index))

read_ipv4_addr(s, pos) == read_ipv4_groups(s, pos, 0, <<>>)

\* read_groups: up to limit 16-bit groups, a trailing embedded IPv4 address
\* counting for two.  Never fails: [groups, next, ipv4].  p is the position
\* after the separator, v4 the embedded IPv4 address read there, n the
\* hexadecimal group read there.
RECURSIVE read_groups(_, _, _, _)
groups_number(s, pos, limit, acc, n) ==
    IF n = None THEN [groups |-> acc, next |-> pos, ipv4 |-> FALSE]
    ELSE read_groups(s, Unwrap(n).next, limit, Append(acc, Unwrap(n).val))

groups_ipv4(s, pos, limit, acc, p, v4) ==
    IF v4 # None
    THEN [groups |-> acc \o <<Unwrap(v4).val[1] * 256 + Unwrap(v4).val[2],
                              Unwrap(v4).val[3] * 256 + Unwrap(v4).val[4]>>,
          next |-> Unwrap(v4).next, ipv4 |-> TRUE]
    ELSE groups_number(s, pos, limit, acc, read_number(s, p, 16, 4, TRUE, 65535))

groups_separator(s, pos, limit, acc, p) ==
    IF p = None THEN [groups |-> acc, next |-> pos, ipv4 |-> FALSE]
    ELSE groups_ipv4(s, pos, limit, acc, Unwrap(p),
                     IF Len(acc) < limit - 1 THEN read_ipv4_addr(s, Unwrap(p)) ELSE None)

read_groups(s, pos, limit, acc) ==
    IF Len(acc) >= limit THEN [groups |-> acc, next |-> pos, ipv4 |-> FALSE]
    ELSE groups_separator(s, pos, limit, acc, read_separator(s, pos, ":", Len(acc)))

Zeros(n) == [i \in 1..n |-> 0]

\* read_ipv6_addr: eight groups, or a head, "::" and a tail.
ipv6_join(head, tail) ==
    Some([val |-> head.groups
                    \o Zeros(8 - Len(head.groups) - Len(tail.groups))
                    \o tail.groups,
          next |-> tail.next])

ipv6_after_head(s, head) ==
    IF Len(head.groups) = 8 THEN Some([val |-> head.groups, next |-> head.next])
    ELSE IF head.ipv4 THEN None
    ELSE IF ~(head.next + 1 <= Len(s) /\ s[head.next] = ":" /\ s[head.next + 1] = ":")
    THEN None
    ELSE ipv6_join(head, read_groups(s, head.next + 2, 8 - (Len(head.groups) + 1), <<>>))

read_ipv6_addr(s, pos) == ipv6_after_head(s, read_groups(s, pos, 8, <<>>))

\* A reader's result tagged with the address family v.
tagged(r, v) ==
    IF r = None THEN None
    ELSE Some([val |-> [v |-> v, parts |-> Unwrap(r).val], next |-> Unwrap(r).next])

\* Option::or_else.
or_else(first, second) == IF first # None THEN first ELSE second

\* read_ip_addr: an IPv4 address, or else an IPv6 address.
read_ip_addr(s, pos) ==
    or_else(tagged(read_ipv4_addr(s, pos), 4), tagged(read_ipv6_addr(s, pos), 6))

\* parse_with: the result counts only if the whole text was consumed.
parse_with(s, r) ==
    IF r # None /\ Unwrap(r).next = Len(s) + 1 THEN Some(Unwrap(r).val) ELSE None

\* parse::<IpAddr>().
parse_ip(s) == parse_with(s, read_ip_addr(s, 1))

(***************************************************************************)
(* client_addr.rs:76-121, from_request.                                    *)
(***************************************************************************)
\* The for loop of lines 102-110 over the pieces (last piece first), from
\* piece i on, with last_ip as assigned so far; the value of last_ip when
\* the loop is left.  parsed is what piece i parsed to.
RECURSIVE forwarded_for_loop_no_break(_, _, _)
loop_body_no_break(pieces, i, last_ip, parsed) ==
    IF parsed = None THEN last_ip
    ELSE forwarded_for_loop_no_break(pieces, i + 1, parsed)

forwarded_for_loop_no_break(pieces, i, last_ip) ==
    IF i > Len(pieces) THEN last_ip
    ELSE loop_body_no_break(pieces, i, last_ip, parse_ip(trim(pieces[i])))

RECURSIVE forwarded_for_loop_skip_bad(_, _, _)
loop_body_skip_bad(pieces, i, last_ip, parsed) ==
    IF parsed = None THEN forwarded_for_loop_skip_bad(pieces, i + 1, last_ip)
    ELSE IF ~is_local_ip(Unwrap(parsed)) THEN parsed
    ELSE forwarded_for_loop_skip_bad(pieces, i + 1, parsed)

forwarded_for_loop_skip_bad(pieces, i, last_ip) ==
    IF i > Len(pieces) THEN last_ip
    ELSE loop_body_skip_bad(pieces, i, last_ip, parse_ip(trim(pieces[i])))

RECURSIVE forwarded_for_loop_keep_first(_, _, _)
loop_body_keep_first(pieces, i, last_ip, parsed) ==
    IF parsed = None THEN last_ip
    ELSE IF ~is_local_ip(Unwrap(parsed)) THEN parsed
    ELSE forwarded_for_loop_keep_first(pieces, i + 1,
             IF last_ip = None THEN parsed ELSE last_ip)

forwarded_for_loop_keep_first(pieces, i, last_ip) ==
    IF i > Len(pieces) THEN last_ip
    ELSE loop_body_keep_first(pieces, i, last_ip, parse_ip(trim(pieces[i])))

RECURSIVE forwarded_for_loop(_, _, _)
loop_body(pieces, i, last_ip, parsed) ==
    IF parsed = None THEN last_ip                          \* else { break }
    ELSE IF ~is_local_ip(Unwrap(parsed)) THEN parsed       \* last_ip = Some(ip); break
    ELSE forwarded_for_loop(pieces, i + 1, parsed)         \* last_ip = Some(ip)

forwarded_for_loop(pieces, i, last_ip) ==
    IF i > Len(pieces) THEN last_ip
    ELSE loop_body(pieces, i, last_ip, parse_ip(trim(pieces[i])))

\* Lines 98-110: rsplit the header value and run the loop from last_ip = None.
walk_forwarded_for(forwarded_for_ip) ==
    forwarded_for_loop(rsplit(forwarded_for_ip), 1, None)

\* Lines 112-120, with last_ip as the loop left it.
after_loop(rem, real, last_ip) ==
    [result |-> IF IsSome(last_ip) THEN last_ip                        \* 112-114
                ELSE IF IsSome(real) THEN real                         \* 116-118
                ELSE rem,                                              \* 120
     walked |-> TRUE, last_ip |-> last_ip]

after_loop_remote_before_real(rem, real, last_ip) ==
    [result |-> IF IsSome(last_ip) THEN last_ip
                ELSE IF IsSome(rem) THEN rem
                ELSE real,
     walked |-> TRUE, last_ip |-> last_ip]

after_loop_drop_local_remote(rem, real, last_ip) ==
    [result |-> IF IsSome(last_ip) THEN last_ip ELSE real,
     walked |-> TRUE, last_ip |-> last_ip]

\* One run of from_request: [result, walked, last_ip].  walked says whether
\* the run reached the loop; last_ip is the local of that name at line 112.
ClientAddr_run_real_ip_first(rem, headers, real) ==
    IF IsSome(rem) /\ ~is_local_ip(Unwrap(rem))
    THEN [result |-> rem, walked |-> FALSE, last_ip |-> None]
    ELSE IF IsSome(real)
    THEN [result |-> real, walked |-> FALSE, last_ip |-> None]
    ELSE IF headers = <<>>
    THEN [result |-> rem, walked |-> FALSE, last_ip |-> None]
    ELSE after_loop(rem, real, walk_forwarded_for(Head(headers)))

ClientAddr_run_remote_before_real(rem, headers, real) ==
    IF IsSome(rem) /\ ~is_local_ip(Unwrap(rem))
    THEN [result |-> rem, walked |-> FALSE, last_ip |-> None]
    ELSE IF headers = <<>>
    THEN [result |-> IF IsSome(rem) THEN rem ELSE real,
          walked |-> FALSE, last_ip |-> None]
    ELSE after_loop_remote_before_real(rem, real, walk_forwarded_for(Head(headers)))

ClientAddr_run_drop_local_remote(rem, headers, real) ==
    IF IsSome(rem) /\ ~is_local_ip(Unwrap(rem))
    THEN [result |-> rem, walked |-> FALSE, last_ip |-> None]
    ELSE IF headers = <<>>
    THEN [result |-> real, walked |-> FALSE, last_ip |-> None]
    ELSE after_loop_drop_local_remote(rem, real, walk_forwarded_for(Head(headers)))

ClientAddr_run(rem, headers, real) ==
    IF IsSome(rem) /\ ~is_local_ip(Unwrap(rem))
    THEN [result |-> rem, walked |-> FALSE, last_ip |-> None]          \* 77-82
    ELSE IF headers = <<>>
    THEN [result |-> IF IsSome(real) THEN real ELSE rem,               \* 89-96
          walked |-> FALSE, last_ip |-> None]
    ELSE after_loop(rem, real, walk_forwarded_for(Head(headers)))      \* 98-120

ClientAddr_from_request(rem, headers, real) == ClientAddr_run(rem, headers, real).result

(***************************************************************************)
(* client_real_addr.rs:16-38, from_request.                                *)
(***************************************************************************)
\* Lines 33-37, with parsed what the first piece parsed to.
parsed_or_remote(rem, parsed) == IF IsSome(parsed) THEN parsed ELSE rem

\* Lines 27-37, with first the first piece of the header value.
first_piece_or_remote(rem, first) ==
    IF first = None THEN rem                                           \* 27-31
    ELSE parsed_or_remote(rem, parse_ip(trim(Unwrap(first))))          \* 33-37

ClientRealAddr_from_request_rightmost(rem, headers, real) ==
    IF IsSome(real) THEN real
    ELSE IF headers = <<>> THEN rem
    ELSE parsed_or_remote(rem, parse_ip(trim(Head(rsplit(Head(headers))))))

ClientRealAddr_from_request(rem, headers, real) ==
    IF IsSome(real) THEN real                                          \* 17-19
    ELSE IF headers = <<>> THEN rem                                    \* 21-25
    ELSE first_piece_or_remote(rem, split_first(Head(headers)))

(***************************************************************************)
(* The by-value guards, client_addr.rs:123-133, client_real_addr.rs:40-50: *)
(* Some is Success, None forwards with Status::BadRequest.                 *)
(***************************************************************************)
Success(ip) == [kind |-> "Success", status |-> "", ip |-> Some(ip)]
Forward == [kind |-> "Forward", status |-> "BadRequest", ip |-> None]

Outcome(o) == IF IsSome(o) THEN Success(Unwrap(o)) ELSE Forward

(***************************************************************************)
(* Requests of the resolver specification.                                 *)
(***************************************************************************)
TokPublic == <<"8", ".", "8", ".", "8", ".", "8">>
TokLocalPadded == <<" ", "1", "0", ".", "0", ".", "0", ".", "1">>
TokDocumentation == <<"2", "0", "3", ".", "0", ".", "1", "1", "3", ".", "5">>
TokNotAnIp == <<"n", "o", "t", "-", "a", "n", "-", "i", "p">>
TokEmpty == <<>>
TokPublicV6 == <<"2", "6", "0", "6", ":", "4", "7", "0", "0", ":", ":", "1", "1", "1", "1">>
TokLoopbackV6Padded == <<" ", ":", ":", "1", " ">>
TokSecondHeader == <<"8", ".", "8", ".", "4", ".", "4">>

TokenSet ==
    {TokPublic, TokLocalPadded, TokDocumentation, TokNotAnIp, TokEmpty,
     TokPublicV6, TokLoopbackV6Padded}

TokenSeqs == UNION {[1..n -> TokenSet] : n \in 0..MaxTokens}

\* The header value a proxy chain writes from its tokens.
RECURSIVE Join(_)
Join(ts) ==
    IF Len(ts) = 1 THEN ts[1]
    ELSE ts[1] \o <<",">> \o Join(Tail(ts))

\* No peer, a local peer (documentation range), a public peer.
RemoteOptions == {None, Some(V4(198, 51, 100, 7)), Some(V4(1, 1, 1, 1))}
RealIpOptions == {None, Some(V4(9, 9, 9, 9))}

ClassifyIdle ==
    /\ addr = V4(0, 0, 0, 0)
    /\ verdict = None

ResolveInit ==
    /\ tokens \in TokenSeqs
    /\ remote \in RemoteOptions
    /\ realIp \in RealIpOptions
    /\ xff \in IF tokens = <<>> THEN {<<>>}
               ELSE {<<Join(tokens)>>, <<Join(tokens), TokSecondHeader>>}
    /\ lastIp = None
    /\ clientAddr = Pending
    /\ clientRealAddr = Pending
    /\ ClassifyIdle
    /\ GuardsIdle

\* The guard's outcome and the loop's last_ip of one run of from_request.
RecordRun(run) ==
    /\ clientAddr' = Outcome(run.result)
    /\ lastIp' = IF run.walked THEN Some(run.last_ip) ELSE None

\* The ClientAddr guard runs on the request.
ClientAddrGuard ==
    /\ clientAddr = Pending
    /\ RecordRun(ClientAddr_run(remote, xff, realIp))
    /\ UNCHANGED <<tokens, remote, xff, realIp, clientRealAddr, classifyVars, guardVars>>

\* The ClientRealAddr guard runs on the request.
ClientRealAddrGuard ==
    /\ clientRealAddr = Pending
    /\ clientRealAddr' = Outcome(ClientRealAddr_from_request(remote, xff, realIp))
    /\ UNCHANGED <<tokens, remote, xff, realIp, lastIp, clientAddr, classifyVars, guardVars>>

ResolveNext == ClientAddrGuard \/ ClientRealAddrGuard

SpecResolve == ResolveInit /\ [][ResolveNext]_vars

(***************************************************************************)
(* Properties of the resolver.                                             *)
(***************************************************************************)
\* What each token of the token set parses to, if anything.
ParseTable == {<<t, parse_ip(trim(t))>> : t \in TokenSet}
\* What token i of the first header value parses to, if anything.
Parsed(i) == (CHOOSE p \in ParseTable : p[1] = tokens[i])[2]
ParsesLocal(i) == IsSome(Parsed(i)) /\ is_local_ip(Unwrap(Parsed(i)))
ParsesPublic(i) == IsSome(Parsed(i)) /\ ~is_local_ip(Unwrap(Parsed(i)))

HeaderPresent == xff # <<>>
\* What the chain walk yields on the first header value (header present).
ChainResult == walk_forwarded_for(Head(xff))
ChainYields == HeaderPresent /\ IsSome(ChainResult)
PeerPublic == IsSome(remote) /\ ~is_local_ip(Unwrap(remote))
ClientAddrRan == clientAddr # Pending
WalkReached == lastIp # None

\* C1 as stated: whenever the header is present and the chain walk yields
\* an address, the resolver returns that address, for every peer value,
\* a public peer included.
C1_AsStated ==
    (ClientAddrRan /\ ChainYields) => (clientAddr = Outcome(ChainResult))

\* C1 amended: whenever the header is present and the chain walk yields an
\* address, the resolver returns that address provided the peer is absent or
\* local; a peer that is present and not local is returned itself, ahead of
\* the chain result.
C1_ChainBeforeRealIpUnlessPublicPeer ==
    (ClientAddrRan /\ ChainYields) =>
        (clientAddr = Outcome(IF PeerPublic THEN remote ELSE ChainResult))

\* Local peer, real IP present, chain "8.8.8.8": the chain result is returned.
C1_Witness ==
    /\ ClientAddrRan
    /\ tokens = <<TokPublic>>
    /\ remote = Some(V4(198, 51, 100, 7))
    /\ realIp = Some(V4(9, 9, 9, 9))
    /\ clientAddr = Success(V4(8, 8, 8, 8))

\* C2 as stated: whenever the header is absent or the chain walk yields no
\* address, and the platform real IP is present, the resolver returns the
\* real IP, whatever the peer is (absent, local or public).
C2_AsStated ==
    (ClientAddrRan /\ ~ChainYields /\ IsSome(realIp)) => (clientAddr = Outcome(realIp))

\* C2 amended: whenever the header is absent or the chain walk yields no
\* address, and the platform real IP is present, the resolver returns the
\* real IP provided the peer is absent or local; a peer that is present and
\* not local is returned itself, ahead of the real IP.
C2_RealIpUnlessPublicPeer ==
    (ClientAddrRan /\ ~ChainYields /\ IsSome(realIp)) =>
        (clientAddr = Outcome(IF PeerPublic THEN remote ELSE realIp))

\* Local peer, header "not-an-ip" (nothing parsed), real IP 9.9.9.9 returned.
C2_Witness ==
    /\ ClientAddrRan
    /\ tokens = <<TokNotAnIp>>
    /\ remote = Some(V4(198, 51, 100, 7))
    /\ clientAddr = Success(V4(9, 9, 9, 9))

\* C3: whenever the chain walk yields no address (header absent, or its
\* rightmost token unparseable) and the real IP is absent, the result is the
\* peer option: the peer itself when present, local or not, and absent (the
\* guard forwards, it does not fail) when there is no peer.
C3_FallsBackToPeer ==
    (ClientAddrRan /\ ~ChainYields /\ realIp = None) =>
        /\ clientAddr = Outcome(remote)
        /\ clientAddr.kind \in {"Success", "Forward"}
        /\ (remote = None => clientAddr = Forward)

\* No header, no real IP, local peer 198.51.100.7: the peer is returned.
C3_Witness ==
    /\ ClientAddrRan
    /\ xff = <<>>
    /\ realIp = None
    /\ clientAddr = Success(V4(198, 51, 100, 7))

\* C4: if, reading the tokens from the last to the first, a non-local
\* address is reached before any unparseable token, the walk returns that
\* address, whatever the tokens to its left are.
C4_WalkStopsAtRightmostPublic ==
    WalkReached =>
        \A i \in 1..Len(tokens) :
            (ParsesPublic(i) /\ \A j \in (i + 1)..Len(tokens) : ParsesLocal(j))
                => (Unwrap(lastIp) = Parsed(i))

\* "not-an-ip,8.8.8.8, 10.0.0.1": the walk passed 10.0.0.1 and returned 8.8.8.8.
C4_Witness ==
    /\ tokens = <<TokNotAnIp, TokPublic, TokLocalPadded>>
    /\ lastIp = Some(Some(V4(8, 8, 8, 8)))

\* C5: if all tokens parse and all are local, the walk returns the first
\* (leftmost) token; and the walk returns none only when the last token of
\* the header does not parse.
C5_WalkExhaustedReturnsLeftmost ==
    WalkReached =>
        /\ (\A j \in 1..Len(tokens) : ParsesLocal(j)) => (Unwrap(lastIp) = Parsed(1))
        /\ (Unwrap(lastIp) = None) => (Parsed(Len(tokens)) = None)

\* "203.0.113.5, ::1 , 10.0.0.1": all local, the walk returned 203.0.113.5.
C5_Witness ==
    /\ tokens = <<TokDocumentation, TokLoopbackV6Padded, TokLocalPadded>>
    /\ lastIp = Some(Some(V4(203, 0, 113, 5)))

\* C6: if, reading the tokens from the last to the first, an unparseable
\* token is reached before any non-local address, the walk stops there and
\* returns the local address parsed immediately to its right (none if the
\* unparseable token is the last one), whatever the tokens to its left are;
\* the guard then succeeds or forwards, it never fails.
C6_WalkTruncatesAtParseFailure ==
    WalkReached =>
        /\ \A i \in 1..Len(tokens) :
               (Parsed(i) = None /\ \A j \in (i + 1)..Len(tokens) : ParsesLocal(j))
                   => (Unwrap(lastIp) = IF i = Len(tokens) THEN None ELSE Parsed(i + 1))
        /\ clientAddr.kind \in {"Success", "Forward"}

\* "8.8.8.8,not-an-ip, 10.0.0.1": the walk stopped at not-an-ip with 10.0.0.1.
C6_Witness ==
    /\ tokens = <<TokPublic, TokNotAnIp, TokLocalPadded>>
    /\ lastIp = Some(Some(V4(10, 0, 0, 1)))

\* C10: ClientRealAddr returns the real IP whenever one is present; otherwise
\* the leftmost token of the first X-Forwarded-For value if it parses, local
\* or not, whatever the other tokens are; otherwise the peer; it is absent
\* exactly when the real IP is absent, the header is absent or its leftmost
\* token does not parse, and the peer is absent.
C10_ClientRealAddrPrecedence ==
    (clientRealAddr # Pending) =>
        /\ clientRealAddr =
               Outcome(IF IsSome(realIp) THEN realIp
                       ELSE IF HeaderPresent /\ IsSome(Parsed(1)) THEN Parsed(1)
                       ELSE remote)
        /\ (clientRealAddr = Forward) <=>
               /\ realIp = None
               /\ (~HeaderPresent \/ Parsed(1) = None)
               /\ remote = None

\* " 10.0.0.1,8.8.8.8", no real IP, public peer: the local leftmost token wins.
C10_Witness ==
    /\ tokens = <<TokLocalPadded, TokPublic>>
    /\ realIp = None
    /\ remote = Some(V4(1, 1, 1, 1))
    /\ clientRealAddr = Success(V4(10, 0, 0, 1))

(***************************************************************************)
(* The by-reference guards and the request-local cache,                    *)
(* client_addr.rs:135-147 and client_real_addr.rs:52-64.                   *)
(***************************************************************************)
\* Number of requests in flight in the cache specification.
NumRequests == 2
Requests == 1..NumRequests

\* The two cached types; Request::local_cache keeps one slot per type.
CacheTypes == {"Option<ClientAddr>", "Option<ClientRealAddr>"}

\* The slot request.local_cache::<T>() uses: request r's slot for type t.
CacheKey_shared_across_requests(r, t) == <<1, t>>

CacheKey(r, t) == <<r, t>>

\* Request::local_cache(f): the slot's value if it is set (f is not run),
\* else the slot is set to f() = value.  The cache after the call, and
\* whether f was run.
local_cache(c, key, value) ==
    IF c[key] = None
    THEN [cache |-> [c EXCEPT ![key] = Some(value)], ran |-> TRUE]
    ELSE [cache |-> c, ran |-> FALSE]

\* Requests the guards are invoked on: nothing known (both guards forward);
\* local peer behind a chain, with a real IP; public peer with a header.
\* The two guards resolve the last two differently.
GuardRequestInputs ==
    {[remote |-> None, xff |-> <<>>, realIp |-> None],
     [remote |-> Some(V4(198, 51, 100, 7)),
      xff |-> <<Join(<<TokPublic, TokLocalPadded>>)>>,
      realIp |-> Some(V4(9, 9, 9, 9))],
     [remote |-> Some(V4(1, 1, 1, 1)),
      xff |-> <<TokDocumentation>>,
      realIp |-> None]}

GuardsInit ==
    /\ requests \in [Requests -> GuardRequestInputs]
    /\ cache = [k \in Requests \X CacheTypes |-> None]
    /\ served = [k \in Requests \X CacheTypes |-> <<>>]
    /\ resolutions = [k \in Requests \X CacheTypes |-> 0]
    /\ calls = 0
    /\ ClassifyIdle
    /\ ResolveIdle

Serve(r, t, how, outcome) ==
    /\ served' = [served EXCEPT ![<<r, t>>] = Append(@, [by |-> how, outcome |-> outcome])]
    /\ calls' = calls + 1

\* Lines 140-145: got is what local_cache did on slot key; the guard hands
\* out what the slot holds.
ServeCached(r, t, key, got) ==
    /\ cache' = got.cache
    /\ resolutions' = [resolutions EXCEPT ![<<r, t>>] = IF got.ran THEN @ + 1 ELSE @]
    /\ Serve(r, t, "ref", Outcome(Unwrap(got.cache[key])))

\* FromRequest for ClientAddr, on request r.
ClientAddrByValue(r) ==
    /\ calls < MaxCalls
    /\ Serve(r, "Option<ClientAddr>", "value",
             Outcome(ClientAddr_from_request(requests[r].remote, requests[r].xff,
                                             requests[r].realIp)))
    /\ resolutions' = [resolutions EXCEPT ![<<r, "Option<ClientAddr>">>] = @ + 1]
    /\ UNCHANGED <<requests, cache, classifyVars, resolveVars>>

\* FromRequest for &ClientAddr, on request r.
ClientAddrByRef(r) ==
    /\ calls < MaxCalls
    /\ ServeCached(r, "Option<ClientAddr>", CacheKey(r, "Option<ClientAddr>"),
                   local_cache(cache, CacheKey(r, "Option<ClientAddr>"),
                               ClientAddr_from_request(requests[r].remote,
                                   requests[r].xff, requests[r].realIp)))
    /\ UNCHANGED <<requests, classifyVars, resolveVars>>

\* FromRequest for ClientRealAddr, on request r.
ClientRealAddrByValue(r) ==
    /\ calls < MaxCalls
    /\ Serve(r, "Option<ClientRealAddr>", "value",
             Outcome(ClientRealAddr_from_request(requests[r].remote, requests[r].xff,
                                                 requests[r].realIp)))
    /\ resolutions' = [resolutions EXCEPT ![<<r, "Option<ClientRealAddr>">>] = @ + 1]
    /\ UNCHANGED <<requests, cache, classifyVars, resolveVars>>

\* FromRequest for &ClientRealAddr, on request r.
ClientRealAddrByRef(r) ==
    /\ calls < MaxCalls
    /\ ServeCached(r, "Option<ClientRealAddr>", CacheKey(r, "Option<ClientRealAddr>"),
                   local_cache(cache, CacheKey(r, "Option<ClientRealAddr>"),
                               ClientRealAddr_from_request(requests[r].remote,
                                   requests[r].xff, requests[r].realIp)))
    /\ UNCHANGED <<requests, classifyVars, resolveVars>>

GuardsNext ==
    \E r \in Requests :
        \/ ClientAddrByValue(r)
        \/ ClientAddrByRef(r)
        \/ ClientRealAddrByValue(r)
        \/ ClientRealAddrByRef(r)

SpecGuards == GuardsInit /\ [][GuardsNext]_vars

\* Every outcome a guard handed out for request r equals the first one
\* handed out for r by a guard of the same type, and a set cache slot holds
\* the value that first outcome was made from.
ServedStable ==
    \A k \in Requests \X CacheTypes :
        /\ \A i \in 1..Len(served[k]) : served[k][i].outcome = served[k][1].outcome
        /\ (cache[k] # None /\ served[k] # <<>>) =>
               (Outcome(Unwrap(cache[k])) = served[k][1].outcome)
        /\ (cache[k] # None) <=> (\E i \in 1..Len(served[k]) : served[k][i].by = "ref")

\* A step changes a cache slot only from unset to set, and only a slot of
\* the one request the step's guard was invoked on; a by-reference guard
\* that finds its slot set runs no resolution.
CacheWriteOnce ==
    \A k \in Requests \X CacheTypes :
        /\ (cache'[k] # cache[k]) =>
               /\ cache[k] = None
               /\ served'[k] # served[k]
               /\ \A k2 \in Requests \X CacheTypes : k2[1] # k[1] =>
                      (cache'[k2] = cache[k2] /\ served'[k2] = served[k2])
        /\ (served'[k] # served[k] /\ served'[k][Len(served'[k])].by = "ref"
               /\ cache[k] # None) =>
               (resolutions'[k] = resolutions[k] /\ cache'[k] = cache[k])

====
